---- MODULE Spec2Model ----
(***************************************************************************)
(* Model of the YouTube transcript dataset pipeline: main.py               *)
(* (process_videos_from_csv) and its helpers in src/downloader.py,         *)
(* src/utils.py, src/qa.py, src/dataset.py.                                *)
(*                                                                         *)
(* Strings are sequences of tokens.  A token is one character, or a        *)
(* multi-character fragment that contains none of the separators the code  *)
(* splits on:                                                              *)
(*   "W"      "youtube.com/watch"          "S"    "youtu.be/"              *)
(*   "P1" "P2" JSON objects with a question and an answer key              *)
(*   "Q"      a JSON object with a question key only                       *)
(*   "n"      a JSON scalar (number)       "x"    text that is not JSON    *)
(*   "_"      JSON whitespace (one space)                                  *)
(*   ".mp4" ".webm" ".mp3" ".txt"  file extensions                         *)
(*   "h"      "https://www." in a URL, a letter in a transcript            *)
(* Paths are written without their (constant) directory: the three output *)
(* directories are three separate variables.                               *)
(***************************************************************************)
EXTENDS Naturals, Sequences, FiniteSets, TLC

(* Python's None, kept apart from the empty string. *)
None == <<"<None>">>

(* Python truthiness of an Optional[str]. *)
Truthy(s) == s # None /\ s # <<>>

(* `x or ""` *)
OrEmpty(s) == IF Truthy(s) THEN s ELSE <<>>

(* ---------------------------------------------------------------------- *)
(* str helpers                                                             *)
(* ---------------------------------------------------------------------- *)

(* The offsets k (0-based) at which sub occurs in s. *)
Occurrences(sub, s) ==
  {k \in 0..Len(s) : k + Len(sub) <= Len(s) /\ SubSeq(s, k + 1, k + Len(sub)) = sub}

(* `sub in s` *)
Contains(sub, s) == Occurrences(sub, s) # {}

SetMax(S) == CHOOSE m \in S : \A k \in S : k <= m

SetMin(S) == CHOOSE m \in S : \A k \in S : m <= k

(* `s.split(sep)[-1]`: what follows the last occurrence of sep (all of s when
   sep does not occur).  The separators used have no self-overlap. *)
SplitLast(s, sep) ==
  IF Contains(sep, s)
  THEN SubSeq(s, SetMax(Occurrences(sep, s)) + Len(sep) + 1, Len(s))
  ELSE s

(* `s.split(sep)[0]`: what precedes the first occurrence of sep. *)
SplitFirst(s, sep) ==
  IF Contains(sep, s) THEN SubSeq(s, 1, SetMin(Occurrences(sep, s))) ELSE s

WatchV == <<"W", "?", "v", "=">>

(* downloader.get_video_id *)
get_video_id(url) ==
  IF Contains(WatchV, url)
  THEN SplitFirst(SplitLast(url, <<"v", "=">>), <<"&">>)
  ELSE IF Contains(<<"S">>, url)
       THEN SplitFirst(SplitLast(url, <<"S">>), <<"?">>)
       ELSE None

(* ---------------------------------------------------------------------- *)
(* utils.sanitize_transcript                                               *)
(* ---------------------------------------------------------------------- *)

IsSpace(c) == c \in {" ", "\n"}

(* `" ".join(text.split())`, scanning left to right; acc is the output so far
   and pending says that whitespace was seen since the last word character. *)
RECURSIVE JoinSplit(_, _, _)
JoinSplit(text, acc, pending) ==
  IF text = <<>> THEN acc
  ELSE IF IsSpace(Head(text)) THEN JoinSplit(Tail(text), acc, TRUE)
  ELSE JoinSplit(Tail(text),
                 IF pending /\ acc # <<>> THEN acc \o <<" ", Head(text)>>
                                          ELSE Append(acc, Head(text)),
                 FALSE)

(* A mutation of sanitize_transcript: line breaks become spaces and runs of
   whitespace are left as they are (text.replace("\n", " ")). *)
sanitize_transcript_newlines(text) ==
  [j \in 1..Len(text) |-> IF text[j] = "\n" THEN " " ELSE text[j]]

sanitize_transcript(text) ==
  IF ~Truthy(text) THEN <<>> ELSE JoinSplit(text, <<>>, FALSE)

(* ---------------------------------------------------------------------- *)
(* json.loads / json.dumps on token strings                                *)
(* ---------------------------------------------------------------------- *)

JsonAtoms == {"P1", "P2", "Q", "n"}

Atom(t) == [k |-> "atom", tok |-> t, items |-> <<>>]

List(xs) == [k |-> "list", tok |-> "", items |-> xs]

ParseFail == [ok |-> FALSE, val |-> Atom(""), next |-> 0]

RECURSIVE ParseValue(_, _)
RECURSIVE ParseItems(_, _, _)

(* One JSON value starting at token i of s; next is the token after it. *)
ParseValue(s, i) ==
  IF i > Len(s) THEN ParseFail
  ELSE IF s[i] \in JsonAtoms THEN [ok |-> TRUE, val |-> Atom(s[i]), next |-> i + 1]
  ELSE IF s[i] = "["
       THEN IF i + 1 <= Len(s) /\ s[i + 1] = "]"
            THEN [ok |-> TRUE, val |-> List(<<>>), next |-> i + 2]
            ELSE ParseItems(s, i + 1, <<>>)
  ELSE ParseFail

(* The elements of a list after its "[" , up to and including its "]". *)
ParseItems(s, i, acc) ==
  LET r == ParseValue(s, i) IN
  IF ~r.ok \/ r.next > Len(s) THEN ParseFail
  ELSE IF s[r.next] = "," THEN ParseItems(s, r.next + 1, Append(acc, r.val))
  ELSE IF s[r.next] = "]"
       THEN [ok |-> TRUE, val |-> List(Append(acc, r.val)), next |-> r.next + 1]
  ELSE ParseFail

IsJsonSpace(c) == c = "_"

NotJsonSpace(c) == ~IsJsonSpace(c)

(* json.loads: ok is FALSE where the call raises (None, or text that is not one
   JSON value); whitespace between tokens is skipped. *)
JsonLoads(s) ==
  LET t == SelectSeq(s, NotJsonSpace)
      r == ParseValue(t, 1)
  IN IF r.ok /\ r.next = Len(t) + 1 THEN r ELSE ParseFail

RECURSIVE JsonDumps(_)
RECURSIVE DumpItems(_)

DumpItems(xs) ==
  IF xs = <<>> THEN <<>>
  ELSE IF Len(xs) = 1 THEN JsonDumps(xs[1])
  ELSE JsonDumps(xs[1]) \o <<",", "_">> \o DumpItems(Tail(xs))

(* json.dumps(v, ensure_ascii=False): items separated by ", ". *)
JsonDumps(v) ==
  IF v.k = "atom" THEN <<v.tok>> ELSE <<"[">> \o DumpItems(v.items) \o <<"]">>

(* isinstance(q, dict) and "question" in q and "answer" in q *)
IsPair(q) == q.k = "atom" /\ q.tok \in {"P1", "P2"}

AllPairs(xs) == \A j \in 1..Len(xs) : IsPair(xs[j])

(* A mutation of is_qa_pairs_valid: the key is misspelt ("answers"), which no
   object of the cells has. *)
is_qa_pairs_valid_typo(qa_pairs_str) ==
  LET r == JsonLoads(qa_pairs_str) IN
  r.ok /\ r.val.k = "list" /\ Len(r.val.items) > 0
       /\ \A j \in 1..Len(r.val.items) : r.val.items[j].tok = "A"

(* main.is_qa_pairs_valid *)
is_qa_pairs_valid(qa_pairs_str) ==
  LET r == JsonLoads(qa_pairs_str) IN
  r.ok /\ r.val.k = "list" /\ Len(r.val.items) > 0 /\ AllPairs(r.val.items)

(* ---------------------------------------------------------------------- *)
(* qa.generate_qa_pairs                                                    *)
(* ---------------------------------------------------------------------- *)

(* The parse-and-validate attempt made on the whole content and again on the
   bracketed span: the list when text decodes to a list of pairs. *)
TryPairs(text) ==
  LET r == JsonLoads(text) IN
  IF r.ok /\ r.val.k = "list" /\ AllPairs(r.val.items)
  THEN [ok |-> TRUE, pairs |-> r.val.items]
  ELSE [ok |-> FALSE, pairs |-> <<>>]

Positions(c, s) == {k \in 1..Len(s) : s[k] = c}

(* re.search(r"\[.*\]", content, re.DOTALL): from the first "[" to the last
   "]" after it; None when there is no such span. *)
BracketSpan(content) ==
  IF Positions("[", content) # {} /\ Positions("]", content) # {}
     /\ SetMin(Positions("[", content)) < SetMax(Positions("]", content))
  THEN SubSeq(content, SetMin(Positions("[", content)), SetMax(Positions("]", content)))
  ELSE None

(* generate_qa_pairs(transcript, num_pairs) against a backend described by
   api_key (OPENAI_API_KEY set or not) and reply: None when the request raises,
   else the content of the first choice.  transcript and num_pairs only enter
   the prompt. *)
generate_qa_pairs(transcript, num_pairs, api_key, reply) ==
  IF ~api_key THEN <<>>
  ELSE IF reply = None THEN <<>>
  ELSE IF reply = <<>> THEN <<>>
  ELSE IF TryPairs(reply).ok THEN TryPairs(reply).pairs
  ELSE IF BracketSpan(reply) # None /\ TryPairs(BracketSpan(reply)).ok
       THEN TryPairs(BracketSpan(reply)).pairs
  ELSE <<>>

(* ---------------------------------------------------------------------- *)
(* Bounds and input sets                                                   *)
(* ---------------------------------------------------------------------- *)

(* Rows of the input table. *)
MaxRows == 2

(* URLs of the input table: a long-form URL of video a, a short-form URL of
   video b, a URL of neither form, a blank cell, and None, which
   csv.DictReader gives for a cell the line is too short to hold. *)
UrlA == <<"W", "?", "v", "=", "a">>

UrlB == <<"S", "b">>

UrlX == <<"x">>

VideoUrls == {UrlA, UrlB, UrlX}

RowUrls == VideoUrls \cup {<<" ">>, None}

(* qa_pairs cells: empty (also what a table without the column gives), and a
   list of two pairs written without the space json.dumps puts after ",". *)
ValidCell == <<"[", "P1", ",", "P2", "]">>

RowQaPairs == {<<>>, ValidCell}

InputRow == [url : RowUrls, qa_pairs : RowQaPairs]

RECURSIVE SeqsUpTo(_, _)
SeqsUpTo(S, n) ==
  IF n = 0 THEN {<<>>}
  ELSE SeqsUpTo(S, n - 1) \cup {Append(q, x) : q \in SeqsUpTo(S, n - 1), x \in S}

(* What the video service knows of a video: its title and container. *)
VideoInfos ==
  {[title |-> <<"T">>, ext |-> ".mp4"], [title |-> <<"a">>, ext |-> ".mp4"],
   [title |-> <<"T">>, ext |-> ".webm"]}

NoInfo == [title |-> <<>>, ext |-> ""]

(* Texts the transcript service returns (snippets joined by spaces). *)
TranscriptTexts == {<<"h", "\n", " ", "i">>, <<" ">>}

(* Contents of the backend's first choice in the pipeline runs. *)
PipelineReplies ==
  {<<>>, <<"[", "P1", ",", "P2", "]">>, <<"x", "[", "P1", "]", "x">>, <<"[", "Q", "]">>}

(* num_pairs at main.py's call of generate_qa_pairs. *)
NumPairs == 5

(* Inputs of get_video_id: long-form URLs "[h]youtube.com/watch?v=" + tail,
   and short strings over the tokens of both forms. *)
MaxTail == 5

TailTokens == {"a", "&", "v", "="}

OtherTokens == {"W", "S", "?", "a"}

MaxOther == 3

UrlInputs ==
  {pre \o WatchV \o tail : pre \in {<<>>, <<"h">>}, tail \in SeqsUpTo(TailTokens, MaxTail)}
    \cup SeqsUpTo(OtherTokens, MaxOther)

(* Inputs of generate_qa_pairs: the requested count, whether the API key is
   set, and the reply: None when the request raises, else the content. *)
MaxPairs == 2

MaxReplyLen == 5

ReplyTokens == {"[", "]", ",", "P1", "Q", "x", "_"}

QaInputs ==
  [transcript : {<<"h">>}, num_pairs : 1..MaxPairs, api_key : BOOLEAN,
   reply : SeqsUpTo(ReplyTokens, MaxReplyLen) \cup {None}]

(* ---------------------------------------------------------------------- *)
(* State                                                                   *)
(* ---------------------------------------------------------------------- *)

VARIABLES
  rows,          \* the input table (csv.DictReader rows), fixed
  world,         \* url -> title and container the video service serves
  mp4_files,     \* file names in video_output_dir
  mp3_files,     \* file names in audio_output_dir
  txt_files,     \* file name -> [content, src] in transcript_output_dir
  rerun,         \* an earlier invocation has ended
  i,             \* index of the row being processed
  pc,            \* position in process_videos_from_csv
  cur,           \* the local variables of the loop body
  gcur,          \* history of the current row: collaborators invoked, ...
  dataset_rows,  \* the records appended so far in this invocation
  ghost_rows,    \* the history of each appended record
  csv_out,       \* the dataset file
  error,         \* the exception that ended the invocation, "" if none
  url_in,        \* argument of a call of get_video_id
  url_out,       \* its result
  qa_in,         \* arguments and backend of a call of generate_qa_pairs
  qa_out         \* its result

pipe_vars ==
  <<rows, world, mp4_files, mp3_files, txt_files, rerun, i, pc, cur, gcur,
    dataset_rows, ghost_rows, csv_out, error>>

fn_vars == <<url_in, url_out, qa_in, qa_out>>

vars == <<pipe_vars, fn_vars>>

(* main.py 63-69: the locals at the top of the loop body. *)
FreshLocals ==
  [url |-> <<>>, video_id |-> None, title |-> None, mp4_path |-> None,
   mp3_path |-> None, transcript_path |-> None, transcript |-> None,
   transcript_exists |-> FALSE, qa_pairs |-> <<>>]

(* History of one row: its index in the table, the collaborators invoked for
   it, the stages that raised or returned nothing, whether its media file, mp3
   and transcript were all on disk when the row began, whether a transcript
   file was found at the derived path and what it held, whether that file was
   read, whether a retrieved transcript was saved, and the video the recorded
   transcript was retrieved for. *)
FreshGhost ==
  [row |-> 0, calls |-> {}, failed |-> {}, had_all |-> FALSE, txt_found |-> FALSE,
   txt_content |-> <<>>, read_ok |-> FALSE, saved |-> FALSE, src |-> None]

NoCsv == [header |-> <<>>, rows |-> <<>>]

Unset == <<"<unset>">>

NoPairsYet == [done |-> FALSE, pairs |-> <<>>]

PipeInit ==
  /\ rows \in SeqsUpTo(InputRow, MaxRows)
  /\ world = [u \in VideoUrls |-> NoInfo]
  /\ mp4_files = {}
  /\ mp3_files = {}
  /\ txt_files = {}
  /\ rerun = FALSE
  /\ i = 1
  /\ pc = "row"
  /\ cur = FreshLocals
  /\ gcur = FreshGhost
  /\ dataset_rows = <<>>
  /\ ghost_rows = <<>>
  /\ csv_out = NoCsv
  /\ error = ""

FnIdle == url_in = <<>> /\ url_out = Unset /\ qa_in = <<>> /\ qa_out = NoPairsYet

Init == PipeInit /\ FnIdle

(* ---------------------------------------------------------------------- *)
(* File system helpers                                                     *)
(* ---------------------------------------------------------------------- *)

Front(f) == SubSeq(f, 1, Len(f) - 1)

Last(f) == f[Len(f)]

(* os.path.exists on a transcript path. *)
TxtExists(p) == \E f \in txt_files : f.name = p

TxtFile(p) == CHOOSE f \in txt_files : f.name = p

(* open(p, "w") followed by write(content): the file is created or replaced. *)
TxtWrite(files, p, content, src) ==
  {f \in files : f.name # p} \cup {[name |-> p, content |-> content, src |-> src]}

(* main.py 72-76: the .mp4 files of video_output_dir whose name contains the
   video id. *)
possible_mp4s(video_id) ==
  {f \in mp4_files : Last(f) = ".mp4" /\ Contains(video_id, f)}

(* main.py 93-96 *)
DerivedPath(title, ext) == IF Truthy(title) THEN title \o <<ext>> ELSE <<>>

(* str.strip() *)
RECURSIVE LStrip(_)
LStrip(s) == IF s # <<>> /\ IsSpace(Head(s)) THEN LStrip(Tail(s)) ELSE s

RECURSIVE RStrip(_)
RStrip(s) == IF s # <<>> /\ IsSpace(Last(s)) THEN RStrip(Front(s)) ELSE s

Strip(s) == RStrip(LStrip(s))

(* ---------------------------------------------------------------------- *)
(* process_videos_from_csv                                                 *)
(* ---------------------------------------------------------------------- *)

(* main.py 60: row.get("url", "") is None for a cell the line does not hold,
   and None.strip() raises AttributeError out of the function. *)
RowUrlMissing ==
  /\ pc = "row" /\ i <= Len(rows) /\ rows[i].url = None
  /\ pc' = "crashed" /\ error' = "AttributeError"
  /\ UNCHANGED <<rows, world, mp4_files, mp3_files, txt_files, rerun, i, cur, gcur,
                 dataset_rows, ghost_rows, csv_out, fn_vars>>

(* main.py 60-62: a blank url, continue. *)
SkipRow ==
  /\ pc = "row" /\ i <= Len(rows) /\ rows[i].url # None
  /\ Strip(rows[i].url) = <<>>
  /\ i' = i + 1
  /\ UNCHANGED <<rows, world, mp4_files, mp3_files, txt_files, rerun, pc, cur, gcur,
                 dataset_rows, ghost_rows, csv_out, error, fn_vars>>

(* The media file, the mp3 and the transcript of the video at url are all on
   disk: the transcript file holds text retrieved for this video. *)
HasAllArtifacts(url) ==
  /\ world[url] # NoInfo
  /\ (world[url].title \o <<world[url].ext>>) \in mp4_files
  /\ (world[url].title \o <<".mp3">>) \in mp3_files
  /\ TxtExists(world[url].title \o <<".txt">>)
  /\ TxtFile(world[url].title \o <<".txt">>).src = get_video_id(url)
  /\ TxtFile(world[url].title \o <<".txt">>).content # <<>>

(* main.py 60-69 *)
StartRow ==
  /\ pc = "row" /\ i <= Len(rows) /\ rows[i].url # None
  /\ Strip(rows[i].url) # <<>>
  /\ cur' = [FreshLocals EXCEPT !.url = Strip(rows[i].url),
                                !.video_id = get_video_id(Strip(rows[i].url))]
  /\ gcur' = [FreshGhost EXCEPT !.row = i,
                                !.had_all = (rerun /\ HasAllArtifacts(Strip(rows[i].url)))]
  /\ pc' = "video"
  /\ UNCHANGED <<rows, world, mp4_files, mp3_files, txt_files, rerun, i,
                 dataset_rows, ghost_rows, csv_out, error, fn_vars>>

(* main.py 77-79, 93-96: a file of the video directory is reused; os.listdir
   gives no order, so any match may be the first. *)
ReuseVideo ==
  /\ pc = "video" /\ Truthy(cur.video_id)
  /\ \E f \in possible_mp4s(cur.video_id) :
       cur' = [cur EXCEPT !.mp4_path = f, !.title = Front(f),
                          !.mp3_path = DerivedPath(Front(f), ".mp3"),
                          !.transcript_path = DerivedPath(Front(f), ".txt")]
  /\ pc' = "convert"
  /\ UNCHANGED <<rows, world, mp4_files, mp3_files, txt_files, rerun, i, gcur,
                 dataset_rows, ghost_rows, csv_out, error, fn_vars>>

(* main.py 80-96 with downloader.download_video: the download raises (None is
   returned), or the file "<title>.<ext>" is written and its path returned. *)
DownloadVideo ==
  /\ pc = "video"
  /\ ~(Truthy(cur.video_id) /\ possible_mp4s(cur.video_id) # {})
  /\ \/ /\ cur' = [cur EXCEPT !.mp4_path = None, !.title = <<>>,
                              !.mp3_path = <<>>, !.transcript_path = <<>>]
        /\ gcur' = [gcur EXCEPT !.calls = @ \cup {"download"},
                                !.failed = @ \cup {"download"}]
        /\ UNCHANGED <<world, mp4_files>>
     \/ \E info \in VideoInfos :
        /\ world[cur.url] \in {NoInfo, info}
        /\ world' = [world EXCEPT ![cur.url] = info]
        /\ mp4_files' = mp4_files \cup {info.title \o <<info.ext>>}
        /\ cur' = [cur EXCEPT !.mp4_path = info.title \o <<info.ext>>,
                              !.title = info.title,
                              !.mp3_path = DerivedPath(info.title, ".mp3"),
                              !.transcript_path = DerivedPath(info.title, ".txt")]
        /\ gcur' = [gcur EXCEPT !.calls = @ \cup {"download"}]
  /\ pc' = "convert"
  /\ UNCHANGED <<rows, mp3_files, txt_files, rerun, i,
                 dataset_rows, ghost_rows, csv_out, error, fn_vars>>

(* History: what is at the derived transcript path as the transcript stage
   begins. *)
AtTranscriptStage(g) ==
  IF Truthy(cur.transcript_path) /\ TxtExists(cur.transcript_path)
  THEN [g EXCEPT !.txt_found = TRUE,
                 !.txt_content = TxtFile(cur.transcript_path).content]
  ELSE g

(* main.py 98-99: no media file on disk, or the mp3 is already there. *)
SkipConvert ==
  /\ pc = "convert"
  /\ \/ ~(Truthy(cur.mp4_path) /\ cur.mp4_path \in mp4_files)
     \/ (Truthy(cur.mp3_path) /\ cur.mp3_path \in mp3_files)
  /\ gcur' = AtTranscriptStage(gcur)
  /\ pc' = "transcript"
  /\ UNCHANGED <<rows, world, mp4_files, mp3_files, txt_files, rerun, i, cur,
                 dataset_rows, ghost_rows, csv_out, error, fn_vars>>

(* main.py 100-103 with converter.mp4_to_mp3: the mp3 is written, or the
   video has no audio track and nothing is written, or the conversion raises. *)
ConvertAudio ==
  /\ pc = "convert"
  /\ Truthy(cur.mp4_path) /\ cur.mp4_path \in mp4_files
  /\ ~(Truthy(cur.mp3_path) /\ cur.mp3_path \in mp3_files)
  /\ \E outcome \in {"ok", "noaudio", "raise"} :
       /\ mp3_files' = IF outcome = "ok" THEN mp3_files \cup {cur.mp3_path}
                                         ELSE mp3_files
       /\ gcur' = [AtTranscriptStage(gcur) EXCEPT
                     !.calls = @ \cup {"convert"},
                     !.failed = IF outcome = "raise" THEN @ \cup {"convert"} ELSE @]
  /\ pc' = "transcript"
  /\ UNCHANGED <<rows, world, mp4_files, txt_files, rerun, i, cur,
                 dataset_rows, ghost_rows, csv_out, error, fn_vars>>

(* main.py 122-123 *)
Sanitized(transcript) ==
  IF Truthy(transcript) THEN sanitize_transcript(transcript) ELSE transcript

(* main.py 105-111, 122-123: the transcript file at the derived path is read;
   the read may raise. *)
ReadTranscript ==
  /\ pc = "transcript"
  /\ Truthy(cur.transcript_path) /\ TxtExists(cur.transcript_path)
  /\ \E ok \in BOOLEAN :
       LET f == TxtFile(cur.transcript_path) IN
       /\ cur' = IF ok
                 THEN [cur EXCEPT !.transcript = Sanitized(f.content),
                                  !.transcript_exists = TRUE]
                 ELSE cur
       /\ gcur' = [gcur EXCEPT !.read_ok = ok,
                               !.src = IF ok THEN f.src ELSE @,
                               !.failed = IF ok THEN @ ELSE @ \cup {"read"}]
  /\ pc' = "qa"
  /\ UNCHANGED <<rows, world, mp4_files, mp3_files, txt_files, rerun, i,
                 dataset_rows, ghost_rows, csv_out, error, fn_vars>>

(* What open(transcript_path, "w") and f.write can do: "ok"; "open_fails",
   nothing is created (always so for the empty path); "write_fails", the file
   was created empty and the write raised. *)
SaveOutcomes(transcript_path) ==
  IF transcript_path = <<>> THEN {"open_fails"}
  ELSE {"ok", "open_fails", "write_fails"}

(* main.py 112-123 with transcript.get_video_transcript: None when the
   retrieval raises, else the joined text, which is saved when not empty. *)
RetrieveTranscript ==
  /\ pc = "transcript"
  /\ ~(Truthy(cur.transcript_path) /\ TxtExists(cur.transcript_path))
  /\ Truthy(cur.video_id)
  /\ \E t \in TranscriptTexts \cup {None, <<>>} :
     \E save \in SaveOutcomes(cur.transcript_path) :
       /\ Truthy(t) \/ save = "open_fails"
       /\ cur' = [cur EXCEPT !.transcript = Sanitized(t),
                             !.transcript_exists = (Truthy(t) /\ save = "ok")]
       /\ txt_files' =
            IF Truthy(t) /\ save = "ok"
            THEN TxtWrite(txt_files, cur.transcript_path, t, cur.video_id)
            ELSE IF Truthy(t) /\ save = "write_fails"
            THEN TxtWrite(txt_files, cur.transcript_path, <<>>, cur.video_id)
            ELSE txt_files
       /\ gcur' = [gcur EXCEPT
                     !.calls = @ \cup {"retrieve"},
                     !.saved = (Truthy(t) /\ save = "ok"),
                     !.src = IF Truthy(t) /\ save = "ok" THEN cur.video_id ELSE @,
                     !.failed = IF t = None THEN @ \cup {"retrieve"}
                                ELSE IF Truthy(t) /\ save # "ok" THEN @ \cup {"save"}
                                ELSE @]
  /\ pc' = "qa"
  /\ UNCHANGED <<rows, world, mp4_files, mp3_files, rerun, i,
                 dataset_rows, ghost_rows, csv_out, error, fn_vars>>

(* main.py 105, 112: no transcript file and no video id. *)
SkipTranscript ==
  /\ pc = "transcript"
  /\ ~(Truthy(cur.transcript_path) /\ TxtExists(cur.transcript_path))
  /\ ~Truthy(cur.video_id)
  /\ pc' = "qa"
  /\ UNCHANGED <<rows, world, mp4_files, mp3_files, txt_files, rerun, i, cur, gcur,
                 dataset_rows, ghost_rows, csv_out, error, fn_vars>>

(* A mutation of Record: the transcript is recorded whether or not
   transcript_exists is set. *)
RecordUnguarded(l) ==
  [url |-> l.url, video_id |-> OrEmpty(l.video_id), title |-> OrEmpty(l.title),
   mp4_path |-> OrEmpty(l.mp4_path), mp3_path |-> OrEmpty(l.mp3_path),
   transcript_path |-> IF l.transcript_exists THEN l.transcript_path ELSE <<>>,
   transcript_exists |-> l.transcript_exists,
   transcript |-> OrEmpty(l.transcript),
   qa_pairs |-> JsonDumps(List(l.qa_pairs))]

(* A mutation of Record: transcript_path is recorded as mp3_path is, whether
   or not the transcript was obtained. *)
RecordPathUnguarded(l) ==
  [url |-> l.url, video_id |-> OrEmpty(l.video_id), title |-> OrEmpty(l.title),
   mp4_path |-> OrEmpty(l.mp4_path), mp3_path |-> OrEmpty(l.mp3_path),
   transcript_path |-> OrEmpty(l.transcript_path),
   transcript_exists |-> l.transcript_exists,
   transcript |-> IF l.transcript_exists THEN l.transcript ELSE <<>>,
   qa_pairs |-> JsonDumps(List(l.qa_pairs))]

(* main.py 150-162: the record appended for the locals l. *)
Record(l) ==
  [url |-> l.url, video_id |-> OrEmpty(l.video_id), title |-> OrEmpty(l.title),
   mp4_path |-> OrEmpty(l.mp4_path), mp3_path |-> OrEmpty(l.mp3_path),
   transcript_path |-> IF l.transcript_exists THEN l.transcript_path ELSE <<>>,
   transcript_exists |-> l.transcript_exists,
   transcript |-> IF l.transcript_exists THEN l.transcript ELSE <<>>,
   qa_pairs |-> JsonDumps(List(l.qa_pairs))]

(* main.py 150-162 and the end of the loop body; the locals are dead from
   here on (main.py 63-69 sets them again) and are shown as reset. *)
AppendRecord(qa_pairs, g) ==
  /\ dataset_rows' = Append(dataset_rows, Record([cur EXCEPT !.qa_pairs = qa_pairs]))
  /\ ghost_rows' = Append(ghost_rows, g)
  /\ i' = i + 1
  /\ pc' = "row"
  /\ cur' = FreshLocals
  /\ gcur' = FreshGhost
  /\ UNCHANGED <<rows, world, mp4_files, mp3_files, txt_files, rerun,
                 csv_out, error, fn_vars>>

(* main.py 139-146: the row's qa_pairs cell is valid and is carried through. *)
PassThroughQA ==
  /\ pc = "qa"
  /\ is_qa_pairs_valid(rows[i].qa_pairs)
  /\ AppendRecord(JsonLoads(rows[i].qa_pairs).val.items, gcur)

(* generate_qa_pairs returned nothing because it was skipped, raised, got no
   content or could not parse the content. *)
GenerateFailed(api_key, reply) ==
  \/ ~api_key
  \/ ~Truthy(reply)
  \/ /\ ~TryPairs(reply).ok
     /\ ~(BracketSpan(reply) # None /\ TryPairs(BracketSpan(reply)).ok)

(* main.py 147-148: pairs are generated from the sanitized transcript. *)
GenerateQA ==
  /\ pc = "qa"
  /\ ~is_qa_pairs_valid(rows[i].qa_pairs)
  /\ Truthy(cur.transcript) /\ cur.transcript_exists
  /\ \E api_key \in BOOLEAN, reply \in PipelineReplies \cup {None} :
       AppendRecord(generate_qa_pairs(cur.transcript, NumPairs, api_key, reply),
                    [gcur EXCEPT !.calls = @ \cup {"generate"},
                                 !.failed = IF GenerateFailed(api_key, reply)
                                            THEN @ \cup {"generate"} ELSE @])

(* main.py 141: neither a valid cell nor a transcript; no pairs. *)
NoQA ==
  /\ pc = "qa"
  /\ ~is_qa_pairs_valid(rows[i].qa_pairs)
  /\ ~(Truthy(cur.transcript) /\ cur.transcript_exists)
  /\ AppendRecord(<<>>, gcur)

(* ---------------------------------------------------------------------- *)
(* dataset.write_dataset_csv                                               *)
(* ---------------------------------------------------------------------- *)

(* dataset.py 20-29 *)
fieldnames ==
  <<"url", "video_id", "title", "mp4_path", "mp3_path", "transcript_path",
    "transcript_exists", "transcript">>

Range(f) == {f[k] : k \in DOMAIN f}

(* csv.DictWriter._dict_to_list with extrasaction="raise": the keys of the
   row that are no field names. *)
wrong_fields(row) == DOMAIN row \ Range(fieldnames)

(* The cells written for row, in the order of fieldnames. *)
CsvLine(row) == [k \in DOMAIN fieldnames |-> row[fieldnames[k]]]

(* The rows written before the first row that writerow refuses. *)
RECURSIVE WrittenRows(_)
WrittenRows(rs) ==
  IF rs = <<>> \/ wrong_fields(Head(rs)) # {} THEN <<>>
  ELSE <<CsvLine(Head(rs))>> \o WrittenRows(Tail(rs))

(* main.py 59, 164 with dataset.py 30-35: the loop is over; the header is
   written, then each row; a row with a key outside fieldnames raises
   ValueError out of the run. *)
WriteDataset ==
  /\ pc = "row" /\ i > Len(rows)
  /\ csv_out' = [header |-> fieldnames, rows |-> WrittenRows(dataset_rows)]
  /\ IF \E k \in 1..Len(dataset_rows) : wrong_fields(dataset_rows[k]) # {}
     THEN pc' = "crashed" /\ error' = "ValueError"
     ELSE pc' = "done" /\ error' = error
  /\ UNCHANGED <<rows, world, mp4_files, mp3_files, txt_files, rerun, i, cur, gcur,
                 dataset_rows, ghost_rows, fn_vars>>

(* process_videos_from_csv is invoked again on the same table and
   directories (main.py 52-55). *)
NextRun ==
  /\ pc \in {"done", "crashed"}
  /\ rerun' = TRUE
  /\ i' = 1
  /\ pc' = "row"
  /\ cur' = FreshLocals
  /\ gcur' = FreshGhost
  /\ dataset_rows' = <<>>
  /\ ghost_rows' = <<>>
  /\ error' = ""
  /\ UNCHANGED <<rows, world, mp4_files, mp3_files, txt_files, csv_out, fn_vars>>

Next ==
  \/ RowUrlMissing \/ SkipRow \/ StartRow
  \/ ReuseVideo \/ DownloadVideo
  \/ SkipConvert \/ ConvertAudio
  \/ ReadTranscript \/ RetrieveTranscript \/ SkipTranscript
  \/ PassThroughQA \/ GenerateQA \/ NoQA
  \/ WriteDataset \/ NextRun

Spec == Init /\ [][Next]_vars

(* ---------------------------------------------------------------------- *)
(* get_video_id and generate_qa_pairs as functions of their inputs          *)
(* ---------------------------------------------------------------------- *)

PipeIdle ==
  /\ rows = <<>>
  /\ world = [u \in VideoUrls |-> NoInfo]
  /\ mp4_files = {} /\ mp3_files = {} /\ txt_files = {}
  /\ rerun = FALSE /\ i = 1 /\ pc = "idle"
  /\ cur = FreshLocals /\ gcur = FreshGhost
  /\ dataset_rows = <<>> /\ ghost_rows = <<>>
  /\ csv_out = NoCsv /\ error = ""

InitUrl ==
  /\ PipeIdle
  /\ url_in \in UrlInputs /\ url_out = Unset
  /\ qa_in = <<>> /\ qa_out = NoPairsYet

CallGetVideoId ==
  /\ url_out = Unset
  /\ url_out' = get_video_id(url_in)
  /\ UNCHANGED <<pipe_vars, url_in, qa_in, qa_out>>

SpecUrl == InitUrl /\ [][CallGetVideoId]_vars

InitQa ==
  /\ PipeIdle
  /\ url_in = <<>> /\ url_out = Unset
  /\ qa_in \in QaInputs /\ qa_out = NoPairsYet

CallGenerateQaPairs ==
  /\ ~qa_out.done
  /\ qa_out' = [done |-> TRUE,
                pairs |-> generate_qa_pairs(qa_in.transcript, qa_in.num_pairs,
                                            qa_in.api_key, qa_in.reply)]
  /\ UNCHANGED <<pipe_vars, url_in, url_out, qa_in>>

SpecQa == InitQa /\ [][CallGenerateQaPairs]_vars

(* ---------------------------------------------------------------------- *)
(* Properties                                                              *)
(* ---------------------------------------------------------------------- *)

Records == 1..Len(dataset_rows)

(* The row has a url that is neither missing nor blank. *)
HasUrl(row) == row.url # None /\ Strip(row.url) # <<>>

RECURSIVE UrlsOf(_)
UrlsOf(rs) ==
  IF rs = <<>> THEN <<>>
  ELSE IF HasUrl(Head(rs)) THEN <<Strip(Head(rs).url)>> \o UrlsOf(Tail(rs))
  ELSE UrlsOf(Tail(rs))

(* C1: when an invocation ends, it has completed and the dataset file holds
   exactly one data row per input row with a non-empty url, in input order
   (stated for the tables in which every line has its url cell). *)
C1_DatasetHoldsEveryUrlRow ==
  (pc \in {"done", "crashed"} /\ \A k \in 1..Len(rows) : rows[k].url # None) =>
    /\ pc = "done"
    /\ Len(csv_out.rows) = Len(UrlsOf(rows))
    /\ \A k \in 1..Len(csv_out.rows) : csv_out.rows[k][1] = UrlsOf(rows)[k]

(* Between rows, every row with a url among the rows gone through has its
   record: no stage failure ended the loop or dropped a row. *)
EveryRowAppended ==
  pc = "row" => Len(dataset_rows) = Len(UrlsOf(SubSeq(rows, 1, i - 1)))

TranscriptStages == {"read", "retrieve", "save"}

(* The fields of a record other than mp3_path are empty where their stage
   failed. *)
FailedFieldsEmpty(r, g) ==
  /\ "download" \in g.failed => r.mp4_path = <<>> /\ r.title = <<>>
  /\ g.failed \cap TranscriptStages # {} =>
       r.transcript = <<>> /\ ~r.transcript_exists /\ r.transcript_path = <<>>
  /\ "generate" \in g.failed => r.qa_pairs = <<"[", "]">>

(* C2 as stated: a stage failure never ends the loop, the row is appended and
   the field of every failed stage, mp3_path after a failed conversion
   included, is empty. *)
C2_FailedStageFieldEmpty ==
  /\ EveryRowAppended
  /\ \A k \in Records :
       /\ FailedFieldsEmpty(dataset_rows[k], ghost_rows[k])
       /\ "convert" \in ghost_rows[k].failed => dataset_rows[k].mp3_path = <<>>

(* C2 amended: a stage failure never ends the loop, the row is appended and
   the field of the failed stage is empty, except that after a failed audio
   conversion mp3_path keeps the path derived from the title. *)
C2_FailedStageFieldEmptyButMp3 ==
  /\ EveryRowAppended
  /\ \A k \in Records :
       /\ FailedFieldsEmpty(dataset_rows[k], ghost_rows[k])
       /\ "convert" \in ghost_rows[k].failed =>
            dataset_rows[k].mp3_path = dataset_rows[k].title \o <<".mp3">>

(* A first row whose conversion raised and whose retrieved transcript could
   not be saved, followed by a second processed row. *)
C2_Witness ==
  /\ Len(dataset_rows) = 2
  /\ {"convert", "save"} \subseteq ghost_rows[1].failed

RerunCalls == {"download", "convert", "retrieve"}

(* C3: in a later invocation a row whose media file, mp3 and transcript are on
   disk from an earlier one invokes neither the video fetch, nor the audio
   extraction, nor the transcript retrieval. *)
C3_RerunInvokesNothing ==
  /\ gcur.had_all => gcur.calls \cap RerunCalls = {}
  /\ \A k \in Records : ghost_rows[k].had_all => ghost_rows[k].calls \cap RerunCalls = {}

(* The cell decodes to a non-empty list of objects that each have a question
   and an answer. *)
WellFormedCell(cell) ==
  LET r == JsonLoads(cell) IN
  /\ r.ok /\ r.val.k = "list" /\ r.val.items # <<>>
  /\ \A j \in 1..Len(r.val.items) : r.val.items[j].tok \in {"P1", "P2"}

(* C4: a row with a well-formed qa_pairs cell never has generate_qa_pairs
   invoked, and its record's qa_pairs decodes to the list the cell decodes to. *)
C4_ValidPairsPassThrough ==
  \A k \in Records :
    WellFormedCell(rows[ghost_rows[k].row].qa_pairs) =>
      /\ "generate" \notin ghost_rows[k].calls
      /\ JsonLoads(dataset_rows[k].qa_pairs).ok
      /\ JsonLoads(dataset_rows[k].qa_pairs).val
           = JsonLoads(rows[ghost_rows[k].row].qa_pairs).val

(* Two records with a well-formed cell: one of a row whose download failed,
   one of a row with a transcript, where pairs would otherwise be generated;
   the cell is not spelt as json.dumps spells it. *)
C4_Witness ==
  \E k1, k2 \in Records :
    /\ WellFormedCell(rows[ghost_rows[k1].row].qa_pairs)
    /\ WellFormedCell(rows[ghost_rows[k2].row].qa_pairs)
    /\ "download" \in ghost_rows[k1].failed
    /\ dataset_rows[k2].transcript_exists /\ dataset_rows[k2].transcript # <<>>
    /\ dataset_rows[k2].qa_pairs # rows[ghost_rows[k2].row].qa_pairs

(* C5: transcript_exists is true exactly when the transcript was read from an
   existing file or retrieved non-empty and saved, and transcript is non-empty
   only when transcript_exists is true, empty after any transcript failure. *)
C5_TranscriptExistsIffObtained ==
  \A k \in Records :
    /\ dataset_rows[k].transcript_exists
         <=> (ghost_rows[k].read_ok \/ ghost_rows[k].saved)
    /\ dataset_rows[k].transcript # <<>> => dataset_rows[k].transcript_exists
    /\ ghost_rows[k].failed \cap TranscriptStages # {} => dataset_rows[k].transcript = <<>>

(* A record whose retrieved transcript could not be saved next to a record
   whose transcript was obtained. *)
C5_Witness ==
  \E k1, k2 \in Records :
    /\ "save" \in ghost_rows[k1].failed
    /\ dataset_rows[k2].transcript_exists /\ dataset_rows[k2].transcript # <<>>

(* C6: a row without a title has empty mp3_path and transcript_path and
   invokes neither the audio extraction, nor the transcript retrieval, nor the
   QA synthesis. *)
C6_NoTitleSkipsDownstream ==
  \A k \in Records :
    dataset_rows[k].title = <<>> =>
      /\ dataset_rows[k].mp3_path = <<>> /\ dataset_rows[k].transcript_path = <<>>
      /\ ghost_rows[k].calls \cap {"convert", "retrieve", "generate"} = {}

(* What follows the first occurrence of sep. *)
AfterFirst(s, sep) ==
  SubSeq(s, SetMin(Occurrences(sep, s)) + Len(sep) + 1, Len(s))

(* What lies between the first "watch?v=" of url and the next "&" or the end. *)
LongFormId(url) == SplitFirst(AfterFirst(url, WatchV), <<"&">>)

(* C7: for a URL that contains "watch?v=" followed by a non-empty id of id
   characters, get_video_id returns that id, whatever parameters follow. *)
C7_LongFormId ==
  /\ url_out # Unset /\ Contains(WatchV, url_in)
  /\ LongFormId(url_in) # <<>>
  /\ \A j \in 1..Len(LongFormId(url_in)) : LongFormId(url_in)[j] = "a"
  => url_out = LongFormId(url_in)

(* C8: generate_qa_pairs returns no pair or exactly num_pairs pairs. *)
C8_NoneOrRequestedCount ==
  qa_out.done => Len(qa_out.pairs) \in {0, qa_in.num_pairs}

NotSpace(c) == ~IsSpace(c)

(* The positions of text at which a word after the first begins. *)
LaterWordStarts(text) ==
  {j \in 2..Len(text) :
     /\ NotSpace(text[j]) /\ IsSpace(text[j - 1])
     /\ \E m \in 1..(j - 1) : NotSpace(text[m])}

(* out is text with every run of whitespace between words turned into one
   space and the whitespace at both ends removed. *)
IsCollapsedOf(out, text) ==
  /\ \A j \in 1..Len(out) : out[j] # "\n"
  /\ out # <<>> => NotSpace(out[1]) /\ NotSpace(out[Len(out)])
  /\ \A j \in 1..(Len(out) - 1) : ~(IsSpace(out[j]) /\ IsSpace(out[j + 1]))
  /\ SelectSeq(out, NotSpace) = SelectSeq(text, NotSpace)
  /\ Len(out) - Len(SelectSeq(out, NotSpace)) = Cardinality(LaterWordStarts(text))

(* C9: a row that finds a transcript file at the derived path never invokes
   the retrieval, the file keeps its content, and after a successful read the
   record has transcript_exists and the whitespace-collapsed content. *)
C9_ExistingTranscriptIsRead ==
  \A k \in Records :
    ghost_rows[k].txt_found =>
      /\ "retrieve" \notin ghost_rows[k].calls
      /\ TxtExists(dataset_rows[k].title \o <<".txt">>)
      /\ TxtFile(dataset_rows[k].title \o <<".txt">>).content = ghost_rows[k].txt_content
      /\ ghost_rows[k].read_ok =>
           /\ dataset_rows[k].transcript_exists
           /\ IsCollapsedOf(dataset_rows[k].transcript, ghost_rows[k].txt_content)

(* A record read from a file that holds line breaks, and a record whose file
   was there and could not be read. *)
C9_Witness ==
  \E k1, k2 \in Records :
    /\ ghost_rows[k1].txt_found /\ ghost_rows[k1].read_ok
    /\ Contains(<<"\n">>, ghost_rows[k1].txt_content)
    /\ ghost_rows[k2].txt_found /\ ~ghost_rows[k2].read_ok

(* C10: the transcript recorded for a row with a video id was retrieved for
   that video id. *)
C10_TranscriptOfOwnVideo ==
  \A k \in Records :
    (Truthy(dataset_rows[k].video_id) /\ dataset_rows[k].transcript_exists) =>
      ghost_rows[k].src = dataset_rows[k].video_id

====
